---- MODULE Spec2Model ----
(***************************************************************************)
(* The subtitle batch-translation engine of src/main.py:                   *)
(* parse_subtitle_block, translate_subtitles and the translation section   *)
(* of the /transcribe handler.                                             *)
(*                                                                         *)
(* Strings are sequences of one-character strings.  Three multi-character  *)
(* literals of the source are single symbols of the alphabet:              *)
(*   ARROW  stands for '-->'            (main.py:116)                      *)
(*   WEBVTT stands for 'WEBVTT'         (main.py:156, 272)                 *)
(*   SUBSEP stands for '---SUBTITLE---' (main.py:181, 226)                 *)
(* Whitespace is the space and the line break, the two whitespace          *)
(* characters of the alphabet that str.strip() and \s remove.              *)
(***************************************************************************)
EXTENDS Integers, Sequences, FiniteSets, TLC

\* ------------------------------------------------------------------ bounds
\* Chunks joined into one input document.
MaxChunks == 2
\* Segments joined into one response of the translation capability.
MaxSegs == 2

\* ---------------------------------------------------------------- alphabet
NL == "\n"
SP == " "
ARROW == ">"
WEBVTT == "W"
SUBSEP == "|"
Whitespace == {SP, NL}
Digit == {"0", "1", "2", "3", "4", "5", "6", "7", "8", "9"}

\* ------------------------------------------------------ str and re methods
RECURSIVE lstrip(_)
lstrip(s) == IF s # <<>> /\ Head(s) \in Whitespace THEN lstrip(Tail(s)) ELSE s

RECURSIVE rstrip(_)
rstrip(s) ==
  IF s # <<>> /\ s[Len(s)] \in Whitespace THEN rstrip(SubSeq(s, 1, Len(s) - 1)) ELSE s

strip(s) == rstrip(lstrip(s))

startswith(s, prefix) ==
  Len(s) >= Len(prefix) /\ SubSeq(s, 1, Len(prefix)) = prefix

\* Index of the first occurrence of sep in s, 0 when there is none.
find(s, sep) ==
  LET hits == {i \in 1..(Len(s) - Len(sep) + 1) : SubSeq(s, i, i + Len(sep) - 1) = sep}
  IN  IF hits = {} THEN 0 ELSE CHOOSE i \in hits : \A j \in hits : i <= j

RECURSIVE split(_, _)
split(s, sep) ==
  LET i == find(s, sep)
  IN  IF i = 0 THEN <<s>>
      ELSE <<SubSeq(s, 1, i - 1)>> \o split(SubSeq(s, i + Len(sep), Len(s)), sep)

RECURSIVE join(_, _)
join(sep, parts) ==
  IF parts = <<>> THEN <<>>
  ELSE IF Len(parts) = 1 THEN parts[1]
  ELSE parts[1] \o sep \o join(sep, Tail(parts))

\* Length of the longest prefix of s made of digits.
RECURSIVE digit_run(_)
digit_run(s) == IF s # <<>> /\ Head(s) \in Digit THEN 1 + digit_run(Tail(s)) ELSE 0

\* str(i) for the one-digit positions the model reaches.
str(i) == <<(<<"1", "2", "3", "4", "5", "6", "7", "8", "9">>)[i]>>

separator == <<NL, NL>>

\* re.match(r'(\d+)\n', block): the digits matched, <<>> when there is no match.
seq_match(block) ==
  LET n == digit_run(block)
  IN  IF n > 0 /\ Len(block) > n /\ block[n + 1] = NL THEN SubSeq(block, 1, n) ELSE <<>>

\* re.sub(r'^\[\d+\]\s*', '', part)
strip_tag(part) ==
  IF part # <<>> /\ Head(part) = "["
  THEN LET n == digit_run(Tail(part))
       IN  IF n > 0 /\ Len(part) >= n + 2 /\ part[n + 2] = "]"
           THEN lstrip(SubSeq(part, n + 3, Len(part)))
           ELSE part
  ELSE part

Range(f) == {f[i] : i \in DOMAIN f}

\* ------------------------------------------------- parse_subtitle_block
NoParse == [ok |-> FALSE, timestamp |-> <<>>, text |-> <<>>]

\* The minimum line count below which the parser gives up (main.py:111).
too_short(lines) == Len(lines) < 3

\* start_idx (0-based, as in the source).
start_index(lines, vtt) ==
  IF ~vtt THEN 1
  ELSE IF ARROW \notin Range(lines[1]) THEN 1
  ELSE 0

parse_subtitle_block(block, vtt) ==
  LET lines == split(strip(block), <<NL>>)
      start_idx == start_index(lines, vtt)
  IN  IF too_short(lines) THEN NoParse
      ELSE IF start_idx >= Len(lines) THEN NoParse
      ELSE [ok        |-> TRUE,
            timestamp |-> lines[start_idx + 1],
            text      |-> join(<<NL>>, SubSeq(lines, start_idx + 2, Len(lines)))]

\* ------------------------------------------------- translate_subtitles
NoHeader == [present |-> FALSE, content |-> <<>>]

\* Mutant of RawBlock: the raw block keeps the stripped chunk.
RawBlock_stripped(block) ==
  [type |-> "raw", content |-> strip(block), timestamp |-> <<>>, text |-> <<>>,
   original_block |-> <<>>]

HeaderBlock(block) ==
  [type |-> "header", content |-> block, timestamp |-> <<>>, text |-> <<>>,
   original_block |-> <<>>]
RawBlock(block) ==
  [type |-> "raw", content |-> block, timestamp |-> <<>>, text |-> <<>>,
   original_block |-> <<>>]
SubtitleBlock(parsed, block) ==
  [type |-> "subtitle", content |-> <<>>, timestamp |-> parsed.timestamp,
   text |-> parsed.text, original_block |-> block]

\* The header test of the first pass; i is the 0-based position in blocks.
is_header(block, i, vtt) == vtt /\ i = 0 /\ startswith(strip(block), <<WEBVTT>>)

\* One iteration of the first pass over blocks[i + 1] (i is 0-based).
\* text_indices holds 1-based positions in parsed_blocks.
first_pass_step(acc, block, i, vtt) ==
  IF strip(block) = <<>> THEN acc
  ELSE IF is_header(block, i, vtt)
  THEN [acc EXCEPT !.header = [present |-> TRUE, content |-> block],
                   !.parsed_blocks = Append(@, HeaderBlock(block))]
  ELSE LET parsed == parse_subtitle_block(block, vtt)
       IN  IF ~parsed.ok
           THEN [acc EXCEPT !.parsed_blocks = Append(@, RawBlock(block))]
           ELSE [acc EXCEPT !.parsed_blocks = Append(@, SubtitleBlock(parsed, block)),
                            !.texts_to_translate = Append(@, parsed.text),
                            !.text_indices = Append(@, Len(acc.parsed_blocks) + 1)]

RECURSIVE first_pass_from(_, _, _, _)
first_pass_from(acc, blocks, i, vtt) ==
  IF i >= Len(blocks) THEN acc
  ELSE first_pass_from(first_pass_step(acc, blocks[i + 1], i, vtt), blocks, i + 1, vtt)

first_pass(text, vtt) ==
  first_pass_from([parsed_blocks |-> <<>>, header |-> NoHeader,
                   texts_to_translate |-> <<>>, text_indices |-> <<>>],
                  split(text, separator), 0, vtt)

\* Mutant of should_translate: the call is made whatever was collected.
should_translate_always(texts) == TRUE

\* The guard of the batch call.
should_translate(texts) == texts # <<>>

batch_separator == <<NL, SUBSEP, NL>>

make_batch_text(texts) ==
  join(batch_separator,
       [i \in 1..Len(texts) |-> <<"[">> \o str(i) \o <<"]", SP>> \o texts[i]])

\* The loop that parses the batch response into translated_texts.
RECURSIVE parse_parts(_)
parse_parts(parts) ==
  IF parts = <<>> THEN <<>>
  ELSE LET part == strip(Head(parts))
       IN  (IF part # <<>> THEN <<strip(strip_tag(part))>> ELSE <<>>)
           \o parse_parts(Tail(parts))

parse_batch_response(content) == parse_parts(split(strip(content), <<SUBSEP>>))

\* Mutant of update_blocks: the translations are applied only when the
\* response has exactly one entry per request.
update_blocks_all_or_nothing(blocks, indices, translated_texts) ==
  [j \in 1..Len(blocks) |->
     IF Len(translated_texts) = Len(indices) /\ \E idx \in 1..Len(indices) : indices[idx] = j
     THEN LET idx == CHOOSE k \in 1..Len(indices) : indices[k] = j
          IN  [blocks[j] EXCEPT !.text = translated_texts[idx]]
     ELSE blocks[j]]

\* The loop that writes the translations into parsed_blocks.
update_blocks(blocks, indices, translated_texts) ==
  [j \in 1..Len(blocks) |->
     IF \E idx \in 1..Len(indices) : indices[idx] = j /\ idx <= Len(translated_texts)
     THEN LET idx == CHOOSE k \in 1..Len(indices) : indices[k] = j
          IN  [blocks[j] EXCEPT !.text = translated_texts[idx]]
     ELSE blocks[j]]

\* What the capability does with the one call: it raises, it returns an
\* object whose content is None, or it returns a content string.
Raised == [kind |-> "raise", content |-> <<>>]
Unreadable == [kind |-> "unreadable", content |-> <<>>]
Returned(content) == [kind |-> "ok", content |-> content]
NotCalled == [kind |-> "none", content |-> <<>>]

\* Mutant of try_translate: the text of every collected block is cleared
\* before the call, so a failing call leaves the blocks without text.
try_translate_clears_first(blocks, indices, outcome) ==
  IF outcome.kind = "ok"
  THEN update_blocks(blocks, indices, parse_batch_response(outcome.content))
  ELSE [j \in 1..Len(blocks) |->
          IF \E idx \in 1..Len(indices) : indices[idx] = j
          THEN [blocks[j] EXCEPT !.text = <<>>] ELSE blocks[j]]

\* The try block with its except clause: parsed_blocks after it.
try_translate(blocks, indices, outcome) ==
  IF outcome.kind = "ok"
  THEN update_blocks(blocks, indices, parse_batch_response(outcome.content))
  ELSE blocks

\* Mutant of reconstruct_subtitle: the sequence number is never emitted.
reconstruct_without_number(block_data, vtt) ==
  block_data.timestamp \o <<NL>> \o block_data.text

reconstruct_subtitle(block_data, vtt) ==
  IF vtt THEN block_data.timestamp \o <<NL>> \o block_data.text
  ELSE LET seq_num == seq_match(block_data.original_block)
       IN  IF seq_num # <<>>
           THEN seq_num \o <<NL>> \o block_data.timestamp \o <<NL>> \o block_data.text
           ELSE block_data.timestamp \o <<NL>> \o block_data.text

RECURSIVE reconstruct_blocks(_, _)
reconstruct_blocks(blocks, vtt) ==
  IF blocks = <<>> THEN <<>>
  ELSE LET block_data == Head(blocks)
           rest == reconstruct_blocks(Tail(blocks), vtt)
       IN  IF block_data.type = "header"
           THEN IF ~vtt THEN rest ELSE <<block_data.content>> \o rest
           ELSE IF block_data.type = "raw" THEN <<block_data.content>> \o rest
           ELSE <<reconstruct_subtitle(block_data, vtt)>> \o rest

\* The defensive header prepend.
add_back_header(joined, hdr, vtt) ==
  IF hdr.present /\ vtt /\ ~startswith(joined, <<WEBVTT>>)
  THEN hdr.content \o <<NL, NL>> \o joined
  ELSE joined

rejoin(blocks_out, hdr, vtt) == add_back_header(join(separator, blocks_out), hdr, vtt)

\* The whole function; outcome is what the capability does if it is called.
translate_subtitles(text, vtt, available, outcome) ==
  IF text = <<>> \/ ~available THEN text
  ELSE LET fp == first_pass(text, vtt)
           blocks == IF should_translate(fp.texts_to_translate)
                     THEN try_translate(fp.parsed_blocks, fp.text_indices, outcome)
                     ELSE fp.parsed_blocks
       IN  rejoin(reconstruct_blocks(blocks, vtt), fp.header, vtt)

\* ------------------------------------------------------------- the inputs
\* A timestamp line: digits around the time-range marker.
TS == <<"0", ARROW, "1">>

\* The chunk shapes documents are built from (dialogue is made of the
\* letters a and b).
ChunkSet ==
  { <<>>,                                      \* empty chunk: a run of blank lines
    <<WEBVTT>>,                                \* the header chunk
    <<SP, WEBVTT>>,                            \* a header after leading whitespace
    <<"1", NL>> \o TS \o <<NL, "a">>,          \* number, timestamp, one text line
    <<"1", "2", NL>> \o TS \o <<NL, "a", NL, "b">>,  \* number, timestamp, two text lines
    <<"1", NL>> \o TS \o <<NL, "b", SP>>,      \* the text ends with whitespace
    <<NL, "2", NL>> \o TS \o <<NL, "b">>,      \* a block after one blank line too many
    TS \o <<NL, "a">>,                         \* timestamp, one text line
    TS \o <<NL, "b", NL, "a">>,                \* timestamp, two text lines
    <<"1", NL>> \o TS }                        \* no text at all

ChunkLists == UNION {[1..n -> ChunkSet] : n \in 0..MaxChunks}
Docs == {join(separator, cs) : cs \in ChunkLists}

\* The segments responses are built from (translated dialogue is made of the
\* letters x and y).
SegSet ==
  { <<"[", "1", "]", SP, "x">>,                \* tagged segment
    <<"y">>,                                   \* untagged segment
    <<"[", "2", "]">>,                         \* nothing left once the tag is gone
    <<"x", NL, NL, "y">> }                     \* a segment holding a blank line

SegLists == UNION {[1..n -> SegSet] : n \in 0..MaxSegs}
Responses == {join(batch_separator, ss) : ss \in SegLists}
Outcomes == {Raised, Unreadable} \cup {Returned(r) : r \in Responses}

\* ---------------------------------------------------------------- state
VARIABLES
  subtitle_text,          \* argument of translate_subtitles
  is_vtt,                 \* argument of translate_subtitles
  PERPLEXITY_AVAILABLE,   \* the module-level flag
  pc,                     \* position inside translate_subtitles
  parsed_blocks, header, texts_to_translate, text_indices,
  batch_text,             \* the batch sent in the call (<<>> before any call)
  outcome,                \* what the capability did with the call
  api_calls,              \* calls of the capability made by this invocation
  result_blocks, result,
  request                 \* the /transcribe request being handled

vars == <<subtitle_text, is_vtt, PERPLEXITY_AVAILABLE, pc, parsed_blocks, header,
          texts_to_translate, text_indices, batch_text, outcome, api_calls,
          result_blocks, result, request>>

NoRequest == [pc |-> "none"]

\* translate_subtitles called on a document in a dialect.
Init ==
  /\ subtitle_text \in Docs
  /\ is_vtt \in BOOLEAN
  /\ PERPLEXITY_AVAILABLE \in BOOLEAN
  /\ pc = "start"
  /\ parsed_blocks = <<>>
  /\ header = NoHeader
  /\ texts_to_translate = <<>>
  /\ text_indices = <<>>
  /\ batch_text = <<>>
  /\ outcome = NotCalled
  /\ api_calls = 0
  /\ result_blocks = <<>>
  /\ result = <<>>
  /\ request = NoRequest

\* if not subtitle_text or not PERPLEXITY_AVAILABLE: return subtitle_text
EarlyReturn ==
  /\ pc = "start"
  /\ subtitle_text = <<>> \/ ~PERPLEXITY_AVAILABLE
  /\ result' = subtitle_text
  /\ pc' = "done"
  /\ UNCHANGED <<subtitle_text, is_vtt, PERPLEXITY_AVAILABLE, parsed_blocks, header,
                 texts_to_translate, text_indices, batch_text, outcome, api_calls,
                 result_blocks, request>>

\* The split and the first pass over the blocks.
FirstPass ==
  /\ pc = "start"
  /\ ~(subtitle_text = <<>> \/ ~PERPLEXITY_AVAILABLE)
  /\ LET fp == first_pass(subtitle_text, is_vtt)
     IN  /\ parsed_blocks' = fp.parsed_blocks
         /\ header' = fp.header
         /\ texts_to_translate' = fp.texts_to_translate
         /\ text_indices' = fp.text_indices
  /\ pc' = "parsed"
  /\ UNCHANGED <<subtitle_text, is_vtt, PERPLEXITY_AVAILABLE, batch_text, outcome,
                 api_calls, result_blocks, result, request>>

\* if texts_to_translate: is false, nothing is sent.
NothingToTranslate ==
  /\ pc = "parsed"
  /\ ~should_translate(texts_to_translate)
  /\ pc' = "translated"
  /\ UNCHANGED <<subtitle_text, is_vtt, PERPLEXITY_AVAILABLE, parsed_blocks, header,
                 texts_to_translate, text_indices, batch_text, outcome, api_calls,
                 result_blocks, result, request>>

\* The try block: the one call, the parse of its response, the update of
\* parsed_blocks, and the except clause when any of this raises.
BatchTranslate ==
  /\ pc = "parsed"
  /\ should_translate(texts_to_translate)
  /\ \E o \in Outcomes :
       /\ outcome' = o
       /\ parsed_blocks' = try_translate(parsed_blocks, text_indices, o)
  /\ batch_text' = make_batch_text(texts_to_translate)
  /\ api_calls' = api_calls + 1
  /\ pc' = "translated"
  /\ UNCHANGED <<subtitle_text, is_vtt, PERPLEXITY_AVAILABLE, header,
                 texts_to_translate, text_indices, result_blocks, result, request>>

\* The reconstruction loop, the join and the header prepend.
Reconstruct ==
  /\ pc = "translated"
  /\ result_blocks' = reconstruct_blocks(parsed_blocks, is_vtt)
  /\ result' = rejoin(result_blocks', header, is_vtt)
  /\ pc' = "done"
  /\ UNCHANGED <<subtitle_text, is_vtt, PERPLEXITY_AVAILABLE, parsed_blocks, header,
                 texts_to_translate, text_indices, batch_text, outcome, api_calls,
                 request>>

Next == EarlyReturn \/ FirstPass \/ NothingToTranslate \/ BatchTranslate \/ Reconstruct

Spec == Init /\ [][Next]_vars

\* The stepwise run computes the function.
StepsComputeFunction ==
  pc = "done" =>
    result = translate_subtitles(subtitle_text, is_vtt, PERPLEXITY_AVAILABLE, outcome)

\* ------------------------------------------ transcribe_audio, lines 393-440
\* srt_text / vtt_text: None, or the text read from the artifact.
None == [present |-> FALSE, text |-> <<>>]
Text(t) == [present |-> TRUE, text |-> t]
truthy(t) == t.present /\ t.text # <<>>

\* Whether translate_subtitles reaches the call of the capability.
calls_capability(text, vtt, available) ==
  /\ text # <<>>
  /\ available
  /\ should_translate(first_pass(text, vtt).texts_to_translate)

\* The guard of the translation section.
wants_translation(language, translate_to_hinglish, available) ==
  language # "en" /\ translate_to_hinglish /\ available

Languages == {"auto", "en", "hi"}

SrtTexts ==
  { None, Text(<<>>),
    Text(<<"1", NL>> \o TS \o <<NL, "a", NL, NL, "2", NL>> \o TS \o <<NL, "a", NL, "b", NL, NL>>) }
VttTexts ==
  { None,
    Text(<<WEBVTT, NL, NL>> \o TS \o <<NL, "a", NL, NL>>),
    Text(<<WEBVTT, NL, NL, "1", NL>> \o TS \o <<NL, "a", NL, NL>>) }

\* A request whose subtitle artifacts have just been read.
InitReq ==
  /\ PERPLEXITY_AVAILABLE \in BOOLEAN
  /\ request \in [pc : {"read"}, language : Languages, translate_to_hinglish : BOOLEAN,
                  srt_text : SrtTexts, vtt_text : VttTexts,
                  srt_in : {<<>>}, vtt_in : {<<>>},
                  srt_outcome : {NotCalled}, vtt_outcome : {NotCalled},
                  translated : {FALSE}, status : {0},
                  translated_to_hinglish : {FALSE}]
  /\ subtitle_text = <<>>
  /\ is_vtt = FALSE
  /\ pc = "idle"
  /\ parsed_blocks = <<>>
  /\ header = NoHeader
  /\ texts_to_translate = <<>>
  /\ text_indices = <<>>
  /\ batch_text = <<>>
  /\ outcome = NotCalled
  /\ api_calls = 0
  /\ result_blocks = <<>>
  /\ result = <<>>

translate_vars == <<subtitle_text, is_vtt, PERPLEXITY_AVAILABLE, pc, parsed_blocks,
                    header, texts_to_translate, text_indices, batch_text, outcome,
                    api_calls, result_blocks, result>>

\* if not srt_text and not vtt_text: raise HTTPException(500)
ReqNoSubtitles ==
  /\ request.pc = "read"
  /\ ~truthy(request.srt_text) /\ ~truthy(request.vtt_text)
  /\ request' = [request EXCEPT !.pc = "responded", !.status = 500]
  /\ UNCHANGED translate_vars

\* The guard of the translation section is false.
ReqSkipTranslation ==
  /\ request.pc = "read"
  /\ truthy(request.srt_text) \/ truthy(request.vtt_text)
  /\ ~wants_translation(request.language, request.translate_to_hinglish,
                        PERPLEXITY_AVAILABLE)
  /\ request' = [request EXCEPT !.pc = "respond"]
  /\ UNCHANGED translate_vars

\* if srt_text: srt_text = translate_subtitles(srt_text, is_vtt=False)
ReqTranslateSrt ==
  /\ request.pc = "read"
  /\ truthy(request.srt_text) \/ truthy(request.vtt_text)
  /\ wants_translation(request.language, request.translate_to_hinglish,
                       PERPLEXITY_AVAILABLE)
  /\ IF truthy(request.srt_text)
     THEN \E o \in Outcomes :
            LET t == request.srt_text.text
                called == calls_capability(t, FALSE, PERPLEXITY_AVAILABLE)
            IN  /\ called \/ o = Raised
                /\ request' =
                     [request EXCEPT
                        !.pc = "srt_done",
                        !.srt_in = t,
                        !.srt_outcome = IF called THEN o ELSE NotCalled,
                        !.srt_text = Text(translate_subtitles(t, FALSE,
                                                              PERPLEXITY_AVAILABLE, o))]
     ELSE request' = [request EXCEPT !.pc = "srt_done"]
  /\ UNCHANGED translate_vars

\* if vtt_text: vtt_text = translate_subtitles(vtt_text, is_vtt=True)
\* translated = True
ReqTranslateVtt ==
  /\ request.pc = "srt_done"
  /\ IF truthy(request.vtt_text)
     THEN \E o \in Outcomes :
            LET t == request.vtt_text.text
                called == calls_capability(t, TRUE, PERPLEXITY_AVAILABLE)
                vo == IF called THEN o ELSE NotCalled
            IN  /\ called \/ o = Raised
                /\ request' =
                     [request EXCEPT
                        !.pc = "respond",
                        !.vtt_in = t,
                        !.vtt_outcome = vo,
                        !.vtt_text = Text(translate_subtitles(t, TRUE,
                                                              PERPLEXITY_AVAILABLE, o)),
                        !.translated = TRUE]
     ELSE request' =
            [request EXCEPT !.pc = "respond", !.translated = TRUE]
  /\ UNCHANGED translate_vars

\* return JSONResponse(content={"success": True, ...})
ReqRespond ==
  /\ request.pc = "respond"
  /\ request' = [request EXCEPT !.pc = "responded", !.status = 200,
                                !.translated_to_hinglish = request.translated]
  /\ UNCHANGED translate_vars

NextReq ==
  ReqNoSubtitles \/ ReqSkipTranslation \/ ReqTranslateSrt \/ ReqTranslateVtt \/ ReqRespond

SpecReq == InitReq /\ [][NextReq]_vars

\* ======================================================== the properties
\* What the properties read off the input document, chunk by chunk.
RECURSIVE NonEmptyOf(_)
NonEmptyOf(chunks) ==
  IF chunks = <<>> THEN <<>>
  ELSE (IF strip(Head(chunks)) # <<>> THEN <<Head(chunks)>> ELSE <<>>)
       \o NonEmptyOf(Tail(chunks))

NonEmptyChunks(text) == NonEmptyOf(split(text, separator))

HasHeader(text, vtt) == is_header(split(text, separator)[1], 0, vtt)

\* The kinds of the non-empty chunks of text, in document order.
ChunkKinds(text, vtt) ==
  LET chunks == NonEmptyChunks(text)
      hdr == HasHeader(text, vtt)
  IN  [j \in 1..Len(chunks) |->
         IF j = 1 /\ hdr THEN "header"
         ELSE IF parse_subtitle_block(chunks[j], vtt).ok THEN "subtitle"
         ELSE "raw"]

\* The kind of the j-th non-empty chunk of text.
ChunkKind(text, vtt, j) == ChunkKinds(text, vtt)[j]

ChunkIndices(text) == 1..Len(NonEmptyChunks(text))
DialogueIndices(text, vtt) ==
  LET kinds == ChunkKinds(text, vtt)
  IN  {j \in DOMAIN kinds : kinds[j] = "subtitle"}

\* The run went through the parser (it did not return early).
Ran == pc = "done" /\ PERPLEXITY_AVAILABLE /\ subtitle_text # <<>>

CallFailed == outcome.kind \in {"raise", "unreadable"}

\* The translated strings the response yields.
Segments == IF outcome.kind = "ok" THEN parse_batch_response(outcome.content) ELSE <<>>

\* The output with every dialogue block carrying its original text.
Untranslated(text, vtt) ==
  LET fp == first_pass(text, vtt)
  IN  rejoin(reconstruct_blocks(fp.parsed_blocks, vtt), fp.header, vtt)

Count(seq, x) == Cardinality({i \in DOMAIN seq : seq[i] = x})

\* A dialect-A document of blocks of the shape number line, timestamp line,
\* one or more non-empty text lines, separated by the blank-line separator.
IsNumberLine(line) == line # <<>> /\ digit_run(line) = Len(line)
WellFormedBlockA(chunk) ==
  LET lines == split(chunk, <<NL>>)
  IN  /\ Len(lines) >= 3
      /\ IsNumberLine(lines[1])
      /\ ARROW \in Range(lines[2])
      /\ \A i \in 3..Len(lines) : lines[i] # <<>>
WellFormedA(text) ==
  /\ text # <<>>
  /\ \A i \in DOMAIN split(text, separator) :
       WellFormedBlockA(split(text, separator)[i])

\* ---------------------------------------------------------------------
\* C1: when the one call of the translation capability fails (it raises, or
\* its response cannot be read), translate_subtitles still returns, its
\* output is the untranslated reconstruction of the input, and every
\* dialogue block carries its original text.
C1_FailureKeepsOriginal ==
  /\ (pc = "translated" /\ CallFailed) => ENABLED Reconstruct
  /\ (pc = "done" /\ CallFailed) =>
       /\ result = Untranslated(subtitle_text, is_vtt)
       /\ \A idx \in 1..Len(text_indices) :
            parsed_blocks[text_indices[idx]].text = texts_to_translate[idx]
       /\ \A j \in DialogueIndices(subtitle_text, is_vtt) :
            parsed_blocks[j].text
              = parse_subtitle_block(NonEmptyChunks(subtitle_text)[j], is_vtt).text

C1_Witness ==
  /\ pc = "done"
  /\ outcome.kind = "unreadable"
  /\ ~is_vtt /\ WellFormedA(subtitle_text)
  /\ Len(texts_to_translate) = 2
  /\ api_calls = 1
  /\ parsed_blocks[2].text = <<"a", NL, "b">>

\* ---------------------------------------------------------------------
NoTextReplaced == CallFailed \/ (outcome.kind = "ok" /\ Segments = <<>>)
NoBlockEndsInWhitespace(text) ==
  \A i \in DOMAIN split(text, separator) :
    rstrip(split(text, separator)[i]) = split(text, separator)[i]

\* C2 as stated: for every well-formed dialect-A document, parse followed by
\* reconstruct with no text replaced reproduces the document exactly.
C2_RoundTripAsStated ==
  (Ran /\ ~is_vtt /\ WellFormedA(subtitle_text) /\ NoTextReplaced) =>
    result = subtitle_text

\* C2 (amended): for every well-formed dialect-A document none of whose
\* blocks ends in whitespace, parse followed by reconstruct with no text
\* replaced reproduces the document exactly, sequence numbers included.
C2_RoundTripNoTrailingWhitespace ==
  (Ran /\ ~is_vtt /\ WellFormedA(subtitle_text) /\ NoTextReplaced
       /\ NoBlockEndsInWhitespace(subtitle_text)) =>
    result = subtitle_text

C2_Witness ==
  /\ Ran /\ ~is_vtt /\ WellFormedA(subtitle_text) /\ NoTextReplaced
  /\ NoBlockEndsInWhitespace(subtitle_text)
  /\ Len(split(subtitle_text, separator)) = 2
  /\ api_calls = 1
  /\ result = subtitle_text

\* ---------------------------------------------------------------------
\* The lines an output dialogue block opens with: the sequence number the
\* reconstructor recovers from the chunk (dialect A) and the timestamp line
\* the parser extracted.
OpeningLines(chunk, vtt) ==
  (IF ~vtt /\ IsNumberLine(split(chunk, <<NL>>)[1])
   THEN <<split(chunk, <<NL>>)[1]>> ELSE <<>>)
  \o <<parse_subtitle_block(chunk, vtt).timestamp>>

LinesBeforeText(chunk, vtt) ==
  LET lines == split(strip(chunk), <<NL>>)
  IN  SubSeq(lines, 1, start_index(lines, vtt) + 1)

\* C4: the output holds one block per non-empty input chunk, in order, and
\* every line of a dialogue chunk that is not dialogue text (a sequence
\* number line, the timestamp line, a line before the timestamp) is
\* unchanged in the corresponding output block.
C4_OnlyTextChanges ==
  Ran =>
    /\ Len(result_blocks) = Len(NonEmptyChunks(subtitle_text))
    /\ \A j \in ChunkIndices(subtitle_text) :
         IF ChunkKind(subtitle_text, is_vtt, j) = "subtitle"
         THEN LET kept == LinesBeforeText(NonEmptyChunks(subtitle_text)[j], is_vtt)
                  out == split(result_blocks[j], <<NL>>)
              IN  Len(out) >= Len(kept) /\ SubSeq(out, 1, Len(kept)) = kept
         ELSE result_blocks[j] = NonEmptyChunks(subtitle_text)[j]

\* ---------------------------------------------------------------------
\* C5: one invocation calls the capability at most once: exactly once when
\* the capability is available and the document has a dialogue block, never
\* when the document is empty, the capability is unavailable or no chunk
\* parses as a dialogue block.
C5_AtMostOneCall ==
  /\ api_calls <= 1
  /\ pc = "done" =>
       api_calls = IF /\ PERPLEXITY_AVAILABLE
                      /\ subtitle_text # <<>>
                      /\ DialogueIndices(subtitle_text, is_vtt) # {}
                   THEN 1 ELSE 0

C5_Witness ==
  /\ pc = "done"
  /\ api_calls = 1
  /\ Cardinality(DialogueIndices(subtitle_text, is_vtt)) = 2

\* ---------------------------------------------------------------------
\* C7: for a dialect-B document whose first chunk is the header, the output
\* holds that header first, unchanged, and exactly once (no more often than
\* the input holds a chunk equal to it).
C7_HeaderOnceFirst ==
  (pc = "done" /\ is_vtt /\ HasHeader(subtitle_text, is_vtt)) =>
    LET hdr == split(subtitle_text, separator)[1]
        out == split(result, separator)
    IN  /\ out[1] = hdr
        /\ Count(out, hdr) = Count(split(subtitle_text, separator), hdr)

\* ---------------------------------------------------------------------
\* The texts of the dialogue chunks among chunks[j..], in document order.
RECURSIVE DialogueTextsFrom(_, _, _, _)
DialogueTextsFrom(chunks, kinds, vtt, j) ==
  IF j > Len(chunks) THEN <<>>
  ELSE (IF kinds[j] = "subtitle"
        THEN <<parse_subtitle_block(chunks[j], vtt).text>> ELSE <<>>)
       \o DialogueTextsFrom(chunks, kinds, vtt, j + 1)

\* C8: a chunk that fails the structural parse is not part of the batch sent
\* to the capability and is emitted unchanged at its position among the
\* blocks, whatever the capability does.
C8_RawBlocksVerbatim ==
  Ran =>
    LET chunks == NonEmptyChunks(subtitle_text)
        kinds == ChunkKinds(subtitle_text, is_vtt)
    IN  /\ Len(result_blocks) = Len(chunks)
        /\ texts_to_translate = DialogueTextsFrom(chunks, kinds, is_vtt, 1)
        /\ api_calls = 1 => batch_text = make_batch_text(texts_to_translate)
        /\ \A j \in 1..Len(chunks) :
             kinds[j] = "raw" =>
               /\ result_blocks[j] = chunks[j]
               /\ \A idx \in 1..Len(text_indices) : text_indices[idx] # j

C8_Witness ==
  /\ Ran /\ outcome.kind = "ok" /\ Len(Segments) = 2
  /\ is_vtt
  /\ Len(NonEmptyChunks(subtitle_text)) = 2
  /\ ChunkKind(subtitle_text, is_vtt, 1) = "raw"
  /\ ChunkKind(subtitle_text, is_vtt, 2) = "subtitle"
  /\ result_blocks[1] = NonEmptyChunks(subtitle_text)[1]
  /\ parsed_blocks[2].text = Segments[1]
  /\ Segments[1] = <<"x">>

\* ---------------------------------------------------------------------
\* C9: for every response string, the output is a structurally valid
\* document: it has as many blocks as the input has non-empty chunks, and
\* each dialogue block is its timestamp line (after its sequence number in
\* dialect A) followed by at least one text line.
C9_AlwaysStructurallyValid ==
  (Ran /\ outcome.kind = "ok") =>
    /\ Len(NonEmptyChunks(result)) = Len(NonEmptyChunks(subtitle_text))
    /\ \A j \in DialogueIndices(subtitle_text, is_vtt) :
         LET opening == OpeningLines(NonEmptyChunks(subtitle_text)[j], is_vtt)
             out == split(result_blocks[j], <<NL>>)
         IN  /\ Len(out) > Len(opening)
             /\ SubSeq(out, 1, Len(opening)) = opening
             /\ \A i \in (Len(opening) + 1)..Len(out) : out[i] # <<>>

\* ---------------------------------------------------------------------
\* C10: a chunk with exactly the minimum line count is a dialogue block whose
\* text is collected: 3 lines in dialect A; 2 lines counted from the
\* timestamp line in dialect B.
C10_MinimumChunkIsDialogue ==
  (pc \in {"parsed", "translated", "done"} /\ PERPLEXITY_AVAILABLE /\ subtitle_text # <<>>) =>
    \A j \in ChunkIndices(subtitle_text) :
      LET lines == split(strip(NonEmptyChunks(subtitle_text)[j]), <<NL>>)
          minimal == IF is_vtt THEN Len(lines) - start_index(lines, TRUE) = 2
                     ELSE Len(lines) = 3
      IN  (minimal /\ ChunkKind(subtitle_text, is_vtt, j) # "header") =>
            /\ parsed_blocks[j].type = "subtitle"
            /\ \E idx \in 1..Len(text_indices) : text_indices[idx] = j

\* ---------------------------------------------------------------------
\* A pass of the request replaced the text of some dialogue block.
PassApplied(o) == o.kind = "ok" /\ parse_batch_response(o.content) # <<>>
TranslationApplied == PassApplied(request.srt_outcome) \/ PassApplied(request.vtt_outcome)

\* C6: a request whose translation is absent or fails still succeeds and
\* its result is flagged untranslated: translated_to_hinglish is true only if
\* a translation was applied.
C6_FlagOnlyIfTranslated ==
  request.pc = "responded" =>
    /\ request.status = 200 \/ (~truthy(request.srt_text) /\ ~truthy(request.vtt_text))
    /\ request.translated_to_hinglish => TranslationApplied

====
